---- MODULE Spec2Model ----
(***************************************************************************)
(* Model of the grant harvesting pipeline of scraper/modal_app.py:         *)
(* generate_grant_id, scrape_and_extract (response recovery and record     *)
(* validation), validate_grant_urls, upsert_grants and run_full_scrape.    *)
(*                                                                         *)
(* Text is a sequence of symbols.  A symbol is one character ("[", "{",    *)
(* the quote, a blank, a letter) or a run of characters that holds none of *)
(* the characters the code looks at (a word such as "name" or "json", the  *)
(* fence of three backquotes).  A Python value is a tagged record          *)
(* [t |-> tag, v |-> payload]: "str" (symbols), "num", "bool", "null",     *)
(* "list" (sequence of values) and "dict" (function from key text to       *)
(* value).                                                                 *)
(***************************************************************************)
EXTENDS Integers, Sequences, FiniteSets, TLC

(***************************************************************************)
(* Bounds of the model.                                                    *)
(***************************************************************************)
\* harvest runs (calls of run_full_scrape) in one behaviour
MaxRuns == 2
\* calls of upsert_grants in one behaviour of the reconciler specification
MaxCalls == 2

(***************************************************************************)
(* Text.                                                                   *)
(***************************************************************************)
Q == "\""
\* the fence: three backquotes
FENCE == "~~~"
Whitespace == {" ", "\n"}

\* str.lower() on one symbol
LowerSym(c) ==
  CASE c = "A" -> "a"
    [] c = "B" -> "b"
    [] c = "X" -> "x"
    [] OTHER -> c

\* str.lower()
Lower(s) == [i \in 1..Len(s) |-> LowerSym(s[i])]

RECURSIVE LStrip(_)
LStrip(s) ==
  IF s # <<>> /\ Head(s) \in Whitespace THEN LStrip(Tail(s)) ELSE s

RECURSIVE RStrip(_)
RStrip(s) ==
  IF s # <<>> /\ s[Len(s)] \in Whitespace
  THEN RStrip(SubSeq(s, 1, Len(s) - 1))
  ELSE s

\* str.strip()
Strip(s) == LStrip(RStrip(s))

\* Mutant: the normalisation is skipped.
generate_grant_id_raw(name, provider) == name \o <<"-">> \o provider

\* The 12 hex digits of the SHA-256 digest are collision-free on the texts of
\* the model: the fingerprint is identified with the text that is hashed.
generate_grant_id(name, provider) ==
  Strip(Lower(name)) \o <<"-">> \o Strip(Lower(provider))

(***************************************************************************)
(* Python values.                                                          *)
(***************************************************************************)
StrV(s) == [t |-> "str", v |-> s]
NumV(n) == [t |-> "num", v |-> <<n>>]
BoolV(b) == [t |-> "bool", v |-> <<b>>]
NullV == [t |-> "null", v |-> <<>>]
ListV(l) == [t |-> "list", v |-> l]
DictV(d) == [t |-> "dict", v |-> d]
EmptyDict == DictV(<<>>)

\* dict.get(key) and dict.get(key, default)
Get(d, k, default) == IF k \in DOMAIN d.v THEN d.v[k] ELSE default
\* d[key] = value
Put(d, k, val) == DictV((k :> val) @@ d.v)
\* truthiness of a value (`x or y`, `if not x`)
Truthy(x) ==
  CASE x.t = "null" -> FALSE
    [] x.t = "bool" -> x.v = <<"true">>
    [] x.t = "num" -> x.v # <<"0">>
    [] x.t = "dict" -> DOMAIN x.v # {}
    [] OTHER -> x.v # <<>>
\* x or y
Or(x, y) == IF Truthy(x) THEN x ELSE y

kName == <<"name">>
kProvider == <<"provider">>
kGrants == <<"grants">>
kDescription == <<"description">>
kSectors == <<"sectors">>
kStages == <<"stages">>
kEligibility == <<"eligibility_criteria">>
kApplicationUrl == <<"application_url">>
kSourceUrl == <<"source_url">>
kSourceName == <<"source_name">>
kSourceType == <<"source_type">>
kExternalId == <<"external_id">>
kIsActive == <<"is_active">>

(***************************************************************************)
(* json.loads on a text of symbols.                                        *)
(***************************************************************************)
Literals == {"null", "true", "false", "0", "5"}
LitVal(c) ==
  CASE c = "null" -> NullV
    [] c \in {"true", "false"} -> BoolV(c)
    [] OTHER -> NumV(c)

PFail == [ok |-> FALSE, val |-> NullV, next |-> 0]
POk(val, next) == [ok |-> TRUE, val |-> val, next |-> next]

RECURSIVE SkipWs(_, _)
SkipWs(s, i) ==
  IF i <= Len(s) /\ s[i] \in Whitespace THEN SkipWs(s, i + 1) ELSE i

\* the text of a string literal whose opening quote is before position i
RECURSIVE ParseString(_, _, _)
ParseString(s, i, acc) ==
  IF i > Len(s) THEN PFail
  ELSE IF s[i] = Q THEN POk(StrV(acc), i + 1)
  ELSE IF s[i] = "\n" THEN PFail
  ELSE ParseString(s, i + 1, Append(acc, s[i]))

RECURSIVE ParseValue(_, _)
RECURSIVE ParseElems(_, _, _)
RECURSIVE ParseMembers(_, _, _)

ParseValue(s, i) ==
  LET j == SkipWs(s, i) IN
  IF j > Len(s) THEN PFail
  ELSE IF s[j] = "[" THEN
    LET k == SkipWs(s, j + 1) IN
    IF k <= Len(s) /\ s[k] = "]" THEN POk(ListV(<<>>), k + 1)
    ELSE ParseElems(s, j + 1, <<>>)
  ELSE IF s[j] = "{" THEN
    LET k == SkipWs(s, j + 1) IN
    IF k <= Len(s) /\ s[k] = "}" THEN POk(EmptyDict, k + 1)
    ELSE ParseMembers(s, j + 1, <<>>)
  ELSE IF s[j] = Q THEN ParseString(s, j + 1, <<>>)
  ELSE IF s[j] \in Literals THEN POk(LitVal(s[j]), j + 1)
  ELSE PFail

ParseElems(s, i, acc) ==
  LET e == ParseValue(s, i) IN
  IF ~e.ok THEN PFail
  ELSE LET k == SkipWs(s, e.next) IN
    IF k > Len(s) THEN PFail
    ELSE IF s[k] = "," THEN ParseElems(s, k + 1, Append(acc, e.val))
    ELSE IF s[k] = "]" THEN POk(ListV(Append(acc, e.val)), k + 1)
    ELSE PFail

ParseMembers(s, i, acc) ==
  LET j == SkipWs(s, i) IN
  IF j > Len(s) \/ s[j] # Q THEN PFail
  ELSE LET key == ParseString(s, j + 1, <<>>) IN
    IF ~key.ok THEN PFail
    ELSE LET c == SkipWs(s, key.next) IN
      IF c > Len(s) \/ s[c] # ":" THEN PFail
      ELSE LET e == ParseValue(s, c + 1) IN
        IF ~e.ok THEN PFail
        ELSE LET k == SkipWs(s, e.next)
                 d == (key.val.v :> e.val) @@ acc
             IN
          IF k > Len(s) THEN PFail
          ELSE IF s[k] = "," THEN ParseMembers(s, k + 1, d)
          ELSE IF s[k] = "}" THEN POk(DictV(d), k + 1)
          ELSE PFail

\* json.loads(text): [ok |-> FALSE] stands for json.JSONDecodeError
JsonLoads(s) ==
  LET e == ParseValue(s, 1) IN
  IF e.ok /\ SkipWs(s, e.next) > Len(s) THEN e ELSE PFail

(***************************************************************************)
(* scrape_and_extract: recovery of the JSON payload from the response.     *)
(***************************************************************************)
\* pat occurs in s at position i
OccursAt(s, pat, i) ==
  /\ i >= 1
  /\ i + Len(pat) - 1 <= Len(s)
  /\ \A k \in 1..Len(pat) : s[i + k - 1] = pat[k]

\* str.find(pat) from position i on, 1-based; 0 stands for -1
RECURSIVE FindFrom(_, _, _)
FindFrom(s, pat, i) ==
  IF i + Len(pat) - 1 > Len(s) THEN 0
  ELSE IF OccursAt(s, pat, i) THEN i
  ELSE FindFrom(s, pat, i + 1)

\* pat in s
Contains(s, pat) == FindFrom(s, pat, 1) # 0

\* s.split(pat)[0]
Split0(s, pat) ==
  LET i == FindFrom(s, pat, 1) IN
  IF i = 0 THEN s ELSE SubSeq(s, 1, i - 1)

\* s.split(pat)[1], for a text that holds pat
Split1(s, pat) ==
  LET i == FindFrom(s, pat, 1)
      rest == SubSeq(s, i + Len(pat), Len(s))
  IN Split0(rest, pat)

FenceJson == <<FENCE, "json">>
Fence == <<FENCE>>

\* Mutant: the fence is not removed.
StripFencesKeep(text) == text

\* lines 298-302: the content of the first fenced block, if there is one
StripFences(text) ==
  IF Contains(text, FenceJson) THEN Split0(Split1(text, FenceJson), Fence)
  ELSE IF Contains(text, Fence) THEN Split0(Split1(text, Fence), Fence)
  ELSE text

\* lines 305-310: strip, then cut what precedes the first "["
FromArrayStart(text) ==
  LET t == Strip(text) IN
  IF t # <<>> /\ t[1] = "[" THEN t
  ELSE LET start_idx == FindFrom(t, <<"[">>, 1) IN
    IF start_idx # 0 THEN SubSeq(t, start_idx, Len(t)) ELSE t

\* lines 314-323: the loop over the characters; the result is end_idx
RECURSIVE MatchEnd(_, _, _)
MatchEnd(s, i, bracket_count) ==
  IF i > Len(s) THEN 0
  ELSE IF s[i] = "[" THEN MatchEnd(s, i + 1, bracket_count + 1)
  ELSE IF s[i] = "]" THEN
    IF bracket_count - 1 = 0 THEN i
    ELSE MatchEnd(s, i + 1, bracket_count - 1)
  ELSE MatchEnd(s, i + 1, bracket_count)

\* Mutant: the text is cut at the first "]", whatever the nesting depth.
ToMatchingEndFirst(t) ==
  LET e == FindFrom(t, <<"]">>, 1) IN
  IF t # <<>> /\ t[1] = "[" /\ e > 0 THEN SubSeq(t, 1, e) ELSE t

\* lines 313-325: cut what follows the bracket that closes the first one
ToMatchingEnd(t) ==
  IF t # <<>> /\ t[1] = "[" THEN
    LET end_idx == MatchEnd(t, 1, 0) IN
    IF end_idx > 0 THEN SubSeq(t, 1, end_idx) ELSE t
  ELSE t

\* lines 298-325: json_text
RecoverJsonText(response_text) ==
  ToMatchingEnd(FromArrayStart(StripFences(response_text)))

\* Mutant: an object is always taken as one record.
RecoverGrantsNoWrapper(parsed) ==
  IF parsed.t = "dict" THEN [ok |-> TRUE, grants |-> <<parsed>>]
  ELSE IF parsed.t = "list" THEN [ok |-> TRUE, grants |-> parsed.v]
  ELSE [ok |-> FALSE, grants |-> <<>>]

\* lines 331-342: the record list of a parsed value
RecoverGrants(parsed) ==
  IF parsed.t = "dict" THEN
    IF kGrants \in DOMAIN parsed.v /\ parsed.v[kGrants].t = "list"
    THEN [ok |-> TRUE, grants |-> parsed.v[kGrants].v]
    ELSE [ok |-> TRUE, grants |-> <<parsed>>]
  ELSE IF parsed.t = "list" THEN [ok |-> TRUE, grants |-> parsed.v]
  ELSE [ok |-> FALSE, grants |-> <<>>]

(***************************************************************************)
(* scrape_and_extract: validation and annotation of the records.           *)
(***************************************************************************)
\* Mutant: the type of name and provider is not checked.
SkipReasonNoType(grant) ==
  IF grant.t # "dict" THEN "Not a dict"
  ELSE IF kName \notin DOMAIN grant.v THEN "Missing name"
  ELSE IF kProvider \notin DOMAIN grant.v THEN "Missing provider"
  ELSE "none"

\* lines 349-365: the reason a record is skipped for, "none" when it is kept
SkipReason(grant) ==
  IF grant.t # "dict" THEN "Not a dict"
  ELSE IF kName \notin DOMAIN grant.v THEN "Missing name"
  ELSE IF kProvider \notin DOMAIN grant.v THEN "Missing provider"
  ELSE IF grant.v[kName].t # "str" THEN "Name not string"
  ELSE IF grant.v[kProvider].t # "str" THEN "Provider not string"
  ELSE "none"

\* lines 367-371: the source's fields and the fingerprint
Annotate(grant, source) ==
  LET g1 == Put(grant, kSourceUrl, StrV(source.url))
      g2 == Put(g1, kSourceName, StrV(source.name))
      g3 == Put(g2, kSourceType, StrV(source.type))
  IN Put(g3, kExternalId,
         StrV(generate_grant_id(grant.v[kName].v, grant.v[kProvider].v)))

\* lines 347-372: valid_grants
RECURSIVE ValidGrants(_, _)
ValidGrants(grants, source) ==
  IF grants = <<>> THEN <<>>
  ELSE IF SkipReason(Head(grants)) = "none"
    THEN <<Annotate(Head(grants), source)>> \o ValidGrants(Tail(grants), source)
    ELSE ValidGrants(Tail(grants), source)

\* Mutant: the positions are counted from 1.
SkipReasonsOneBased(grants) ==
  [i \in {j \in 1..Len(grants) : SkipReason(grants[j]) # "none"}
     |-> SkipReason(grants[i])]

\* lines 350-364: debug_info[f"grant_{i}_skip_reason"], i counted from 0
SkipReasons(grants) ==
  [i \in {j \in 0..(Len(grants) - 1) : SkipReason(grants[j + 1]) # "none"}
     |-> SkipReason(grants[i + 1])]

(***************************************************************************)
(* scrape_and_extract, whole.                                              *)
(***************************************************************************)
MinContentLength == 100
MaxContentLength == 50000

Min(a, b) == IF a < b THEN a ELSE b

\* GRANT_SOURCES (the texts shortened to one symbol each)
GRANT_SOURCES ==
  << [name |-> <<"Startup India Government Schemes">>, url |-> <<"u1">>,
      type |-> <<"government">>, provider |-> <<"Startup India">>],
     [name |-> <<"SISFS Seed Fund">>, url |-> <<"u2">>,
      type |-> <<"government">>, provider |-> <<"Startup India">>],
     [name |-> <<"NIDHI Programs">>, url |-> <<"u3">>,
      type |-> <<"government">>, provider |-> <<"DST">>],
     [name |-> <<"BIRAC Funding Schemes">>, url |-> <<"u4">>,
      type |-> <<"government">>, provider |-> <<"BIRAC">>],
     [name |-> <<"Startup Grants India Aggregator">>, url |-> <<"u5">>,
      type |-> <<"aggregator">>, provider |-> <<"StartupGrantsIndia">>] >>

\* line 216: debug_info; a key that is not set holds "unset", FALSE or -1
DebugInfo(source) ==
  [url |-> source.url, content_length |-> 0, crawl_success |-> FALSE,
   error |-> "unset", used_html_fallback |-> FALSE, json_error |-> FALSE,
   parse_type_error |-> FALSE, claude_error |-> FALSE,
   grants_count_before_validation |-> -1, skip_reasons |-> <<>>]

\* the returned dict, and whether messages.create was called
Returned(grants, debug, called) ==
  [grants |-> grants, debug |-> debug, model_called |-> called]

\* lines 276-391: llm is the outcome of messages.create, an exception
\* ("raise") or the text of the response
ExtractWithModel(source, debug, llm) ==
  IF llm.kind = "raise"
  THEN Returned(<<>>, [debug EXCEPT !.claude_error = TRUE], TRUE)
  ELSE
    LET parsed == JsonLoads(RecoverJsonText(llm.text)) IN
    IF ~parsed.ok
    THEN Returned(<<>>, [debug EXCEPT !.json_error = TRUE], TRUE)
    ELSE
      LET rec == RecoverGrants(parsed.val) IN
      IF ~rec.ok
      THEN Returned(<<>>, [debug EXCEPT !.parse_type_error = TRUE], TRUE)
      ELSE Returned(ValidGrants(rec.grants, source),
                    [debug EXCEPT
                       !.grants_count_before_validation = Len(rec.grants),
                       !.skip_reasons = SkipReasons(rec.grants)],
                    TRUE)

\* Mutant: the content is not checked against the threshold.
ScrapeAndExtractNoThreshold(source, crawl, llm) ==
  LET d0 == DebugInfo(source) IN
  IF crawl.kind = "raise"
  THEN Returned(<<>>, [d0 EXCEPT !.error = "exception"], FALSE)
  ELSE IF ~crawl.success
  THEN Returned(<<>>, [d0 EXCEPT !.error = "error_message"], FALSE)
  ELSE ExtractWithModel(source, [d0 EXCEPT !.crawl_success = TRUE,
                                           !.content_length = crawl.md], llm)

\* lines 211-391: crawl is the outcome of crawler.arun, an exception
\* ("raise") or a result with its success flag and the lengths of its
\* markdown and html
ScrapeAndExtract(source, crawl, llm) ==
  LET d0 == DebugInfo(source) IN
  IF crawl.kind = "raise"
  THEN Returned(<<>>, [d0 EXCEPT !.error = "exception"], FALSE)
  ELSE IF ~crawl.success
  THEN Returned(<<>>, [d0 EXCEPT !.error = "error_message"], FALSE)
  ELSE
    LET fallback == crawl.md < MinContentLength
        len == IF fallback THEN Min(crawl.html, MaxContentLength) ELSE crawl.md
        d1 == [d0 EXCEPT !.crawl_success = TRUE,
                         !.used_html_fallback = fallback,
                         !.content_length = len]
    IN IF len < MinContentLength
       THEN Returned(<<>>, d1, FALSE)
       ELSE ExtractWithModel(source, d1, llm)

(***************************************************************************)
(* The responses the extractor is tried on: a prefix, the text of a JSON   *)
(* value, a suffix.                                                        *)
(***************************************************************************)
\* records of at most MaxBatch elements in one array
MaxBatch == 2

KeyOrder == <<kName, kProvider, kDescription, kSectors, kApplicationUrl, kGrants>>

RECURSIVE Dump(_)
RECURSIVE DumpElems(_)
RECURSIVE DumpMembers(_, _, _)

\* json.dumps, without blanks
Dump(x) ==
  CASE x.t = "str" -> <<Q>> \o x.v \o <<Q>>
    [] x.t = "list" -> <<"[">> \o DumpElems(x.v) \o <<"]">>
    [] x.t = "dict" -> <<"{">> \o DumpMembers(x.v, 1, TRUE) \o <<"}">>
    [] x.t = "null" -> <<"null">>
    [] OTHER -> x.v

DumpElems(l) ==
  IF l = <<>> THEN <<>>
  ELSE IF Len(l) = 1 THEN Dump(l[1])
  ELSE Dump(l[1]) \o <<",">> \o DumpElems(Tail(l))

DumpMembers(d, i, first) ==
  IF i > Len(KeyOrder) THEN <<>>
  ELSE IF KeyOrder[i] \in DOMAIN d
    THEN (IF first THEN <<>> ELSE <<",">>)
         \o <<Q>> \o KeyOrder[i] \o <<Q, ":">> \o Dump(d[KeyOrder[i]])
         \o DumpMembers(d, i + 1, FALSE)
    ELSE DumpMembers(d, i + 1, first)

Rec(name, provider) == DictV((kName :> name) @@ (kProvider :> provider))

\* the elements a model response holds
Elements ==
  { Rec(StrV(<<"A">>), StrV(<<"B">>)),
    Put(Rec(StrV(<<"A">>), StrV(<<"B">>)), kSectors, ListV(<<StrV(<<"all">>)>>)),
    Put(Rec(StrV(<<"a", " ">>), StrV(<<"B">>)), kDescription, StrV(<<"d">>)),
    Rec(StrV(<<"A", "]">>), StrV(<<"B">>)),
    Rec(StrV(<<>>), StrV(<<"B">>)),
    Rec(NumV("5"), StrV(<<"B">>)),
    Rec(StrV(<<"X">>), NullV),
    DictV(kName :> StrV(<<"X">>)),
    EmptyDict,
    StrV(<<"A">>) }

RECURSIVE SeqsUpTo(_, _)
\* the sequences over S of length at most n
SeqsUpTo(S, n) ==
  IF n = 0 THEN {<<>>}
  ELSE LET shorter == SeqsUpTo(S, n - 1) IN
       shorter \cup {Append(q, x) : q \in {r \in shorter : Len(r) = n - 1}, x \in S}

\* the JSON values a model response holds: arrays, single objects, an object
\* with the array under "grants", and values that are neither
Payloads ==
  {ListV(l) : l \in SeqsUpTo(Elements, MaxBatch)}
  \cup {e \in Elements : e.t = "dict"}
  \cup {DictV(kGrants :> ListV(l)) : l \in SeqsUpTo(Elements, 1)}
  \cup {DictV((kGrants :> StrV(<<"A">>)) @@ (kName :> StrV(<<"A">>))
              @@ (kProvider :> StrV(<<"B">>)))}
  \cup {NumV("5"), NullV}

Prefixes ==
  { <<>>,
    <<"Here", " ", "are", ":", "\n">>,
    <<FENCE, "json", "\n">>,
    <<FENCE, "\n">>,
    <<"Here", " ", "[", "5", "]", " ", "are", ":", "\n">> }

Suffixes ==
  { <<>>,
    <<"\n", FENCE>>,
    <<"\n", FENCE, " ", "extra", " ", "trailing", " ", "text">>,
    <<"\n", "see", " ", "]">>,
    <<"\n", "see", " ", "]", " ", FENCE, "note", FENCE>> }

\* the outcomes of crawler.arun
CrawlOutcomes ==
  { [kind |-> "raise", success |-> FALSE, md |-> 0, html |-> 0],
    [kind |-> "result", success |-> FALSE, md |-> 0, html |-> 0],
    [kind |-> "result", success |-> TRUE, md |-> 0, html |-> 0],
    [kind |-> "result", success |-> TRUE, md |-> 99, html |-> 99],
    [kind |-> "result", success |-> TRUE, md |-> 99, html |-> 60000],
    [kind |-> "result", success |-> TRUE, md |-> 100, html |-> 0] }

CrawlGood == [kind |-> "result", success |-> TRUE, md |-> 100, html |-> 0]
CrawlFailed == [kind |-> "result", success |-> FALSE, md |-> 0, html |-> 0]
LlmRaise == [kind |-> "raise", text |-> <<>>]
LlmText(t) == [kind |-> "text", text |-> t]

(***************************************************************************)
(* validate_grant_urls.                                                    *)
(***************************************************************************)
Status(code) == [kind |-> "status", code |-> code, exc |-> "none"]
Raises(exc) == [kind |-> "raise", code |-> 0, exc |-> exc]
NoRequest == [kind |-> "none", code |-> 0, exc |-> "none"]

\* what client.head(url) does: the status of the response the redirects end
\* in, or an exception
HeadOutcomes ==
  {Status(200), Status(404), Status(500)}
  \cup {Raises("HTTPStatusError"), Raises("TimeoutException"),
        Raises("ConnectError"), Raises("RemoteProtocolError")}

\* what client.get(url) does
GetOutcomes == {Status(200), Status(404), Raises("TimeoutException")}

\* line 109: the URL that is probed
EffectiveUrl(grant) ==
  Or(Get(grant, kApplicationUrl, NullV), Get(grant, kSourceUrl, StrV(<<>>)))

\* client.head of a URL that is no string raises TypeError
HeadChoices(url) ==
  IF url.t = "str" THEN HeadOutcomes ELSE {Raises("TypeError")}

\* lines 118-121: the GET is issued after HEAD raised httpx.HTTPStatusError
NeedsGet(head) == head.kind = "raise" /\ head.exc = "HTTPStatusError"

\* lines 125-130
FilteredEntry(grant, url) ==
  [name |-> grant.v[kName], provider |-> grant.v[kProvider], url |-> url,
   reason |-> "404 Not Found"]

Kept(requests) == [keep |-> TRUE, requests |-> requests]
Excluded(requests) == [keep |-> FALSE, requests |-> requests]

\* Mutant: a record whose probe fails in any way is excluded.
ProbeStrict(grant, head, get) ==
  LET url == EffectiveUrl(grant)
      h == <<[method |-> "HEAD", url |-> url, outcome |-> head]>>
  IN IF ~Truthy(url) THEN Kept(<<>>)
     ELSE IF head.kind = "status" /\ head.code = 200 THEN Kept(h)
     ELSE Excluded(h)

\* Mutant: a record without a URL is excluded.
ProbeNoUrlExcluded(grant, head, get) ==
  LET url == EffectiveUrl(grant)
      h == <<[method |-> "HEAD", url |-> url, outcome |-> head]>>
      hg == h \o <<[method |-> "GET", url |-> url, outcome |-> get]>>
  IN IF ~Truthy(url) THEN Excluded(<<>>)
     ELSE IF NeedsGet(head) THEN
       IF get.kind = "status" /\ get.code = 404 THEN Excluded(hg) ELSE Kept(hg)
     ELSE IF head.kind = "status" /\ head.code = 404 THEN Excluded(h)
     ELSE Kept(h)

\* lines 109-141: one iteration of the loop, given what HEAD and GET do
Probe(grant, head, get) ==
  LET url == EffectiveUrl(grant)
      h == <<[method |-> "HEAD", url |-> url, outcome |-> head]>>
      hg == h \o <<[method |-> "GET", url |-> url, outcome |-> get]>>
  IN IF ~Truthy(url) THEN Kept(<<>>)
     ELSE IF NeedsGet(head) THEN
       IF get.kind = "status" /\ get.code = 404 THEN Excluded(hg) ELSE Kept(hg)
     ELSE IF head.kind = "status" /\ head.code = 404 THEN Excluded(h)
     ELSE Kept(h)

(***************************************************************************)
(* upsert_grants.                                                          *)
(***************************************************************************)
\* lines 427-435
ProviderType(grant) ==
  LET source_type == Get(grant, kSourceType, StrV(<<"government">>)).v IN
  CASE source_type = <<"csr">> -> "csr"
    [] source_type \in {<<"aggregator">>, <<"private">>} -> "private"
    [] source_type = <<"ngo">> -> "ngo"
    [] OTHER -> "government"

NoDescription == StrV(<<"No description available">>)

\* Mutant: the description of the record is dropped.
GrantDataNoDescription(grant, now) ==
  [name |-> grant.v[kName],
   provider |-> grant.v[kProvider],
   provider_type |-> ProviderType(grant),
   amount_min |-> Get(grant, <<"amount_min">>, NullV),
   amount_max |-> Get(grant, <<"amount_max">>, NullV),
   deadline |-> Get(grant, <<"deadline">>, NullV),
   description |-> NoDescription,
   sectors |-> Get(grant, kSectors, ListV(<<>>)),
   stages |-> Get(grant, kStages, ListV(<<>>)),
   eligibility_criteria |-> Get(grant, kEligibility, EmptyDict),
   url |-> EffectiveUrl(grant),
   contact_email |-> Get(grant, <<"contact_email">>, NullV),
   is_active |-> Get(grant, kIsActive, BoolV("true")),
   updated_at |-> now]

\* lines 437-452: grant_data
GrantData(grant, now) ==
  [name |-> grant.v[kName],
   provider |-> grant.v[kProvider],
   provider_type |-> ProviderType(grant),
   amount_min |-> Get(grant, <<"amount_min">>, NullV),
   amount_max |-> Get(grant, <<"amount_max">>, NullV),
   deadline |-> Get(grant, <<"deadline">>, NullV),
   description |-> Or(Get(grant, kDescription, StrV(<<>>)), NoDescription),
   sectors |-> Get(grant, kSectors, ListV(<<>>)),
   stages |-> Get(grant, kStages, ListV(<<>>)),
   eligibility_criteria |-> Get(grant, kEligibility, EmptyDict),
   url |-> EffectiveUrl(grant),
   contact_email |-> Get(grant, <<"contact_email">>, NullV),
   is_active |-> Get(grant, kIsActive, BoolV("true")),
   updated_at |-> now]

\* lines 417-423, 456-458: .eq("name", ...).eq("provider", ...)
Matches(row, grant) ==
  row.name = grant.v[kName] /\ row.provider = grant.v[kProvider]

\* the rows the lookup returns
Existing(table, grant) ==
  {i \in 1..Len(table) : Matches(table[i], grant)}

\* Mutant: the rows that do not match are deactivated.
UpdateRowsDeactivate(table, grant, now) ==
  [i \in 1..Len(table) |->
     IF Matches(table[i], grant)
     THEN GrantData(grant, now) @@ [created_at |-> table[i].created_at]
     ELSE [table[i] EXCEPT !.is_active = BoolV("false")]]

\* lines 456-458: update(grant_data) of the rows that match
UpdateRows(table, grant, now) ==
  [i \in 1..Len(table) |->
     IF Matches(table[i], grant)
     THEN GrantData(grant, now) @@ [created_at |-> table[i].created_at]
     ELSE table[i]]

\* lines 462-463: insert(grant_data) with created_at
InsertRow(table, grant, now) ==
  Append(table, GrantData(grant, now) @@ [created_at |-> now])

\* Mutant: the empty batch is not returned for at once.
ReturnsAtOnceNever(grants) == FALSE

\* lines 402-403: `if not grants`, before the client is created
ReturnsAtOnce(grants) == grants = <<>>

\* what the storage collaborator does for one record: it serves the lookup
\* and the write, or one of the two raises
StorageOutcomes == {"ok", "lookup_error", "write_error"}

Effect(table, ins, upd, err, calls) ==
  [store |-> table, inserted |-> ins, updated |-> upd, errors |-> err,
   calls |-> calls]

Sent(op, ok) == [op |-> op, ok |-> ok]

\* Mutant: the lookup result is ignored and the record is inserted.
UpsertOneInsert(table, grant, outcome, now) ==
  IF outcome = "lookup_error"
  THEN Effect(table, 0, 0, 1, <<Sent("select", FALSE)>>)
  ELSE IF outcome = "write_error"
    THEN Effect(table, 0, 0, 1, <<Sent("select", TRUE), Sent("insert", FALSE)>>)
    ELSE Effect(InsertRow(table, grant, now), 1, 0, 0,
                <<Sent("select", TRUE), Sent("insert", TRUE)>>)

\* lines 415-468: one iteration of the loop; the counters' increments and
\* the requests sent to the storage collaborator
UpsertOne(table, grant, outcome, now) ==
  IF outcome = "lookup_error"
  THEN Effect(table, 0, 0, 1, <<Sent("select", FALSE)>>)
  ELSE IF Existing(table, grant) # {} THEN
    IF outcome = "write_error"
    THEN Effect(table, 0, 0, 1, <<Sent("select", TRUE), Sent("update", FALSE)>>)
    ELSE Effect(UpdateRows(table, grant, now), 0, 1, 0,
                <<Sent("select", TRUE), Sent("update", TRUE)>>)
  ELSE
    IF outcome = "write_error"
    THEN Effect(table, 0, 0, 1, <<Sent("select", TRUE), Sent("insert", FALSE)>>)
    ELSE Effect(InsertRow(table, grant, now), 1, 0, 0,
                <<Sent("select", TRUE), Sent("insert", TRUE)>>)

\* Mutant: a storage error ends the loop.
NextRecordAbort(idx, n, effect) ==
  IF effect.errors > 0 THEN n + 1 ELSE idx + 1

\* line 414: the loop goes on to the next record, after an error too
NextRecord(idx, n, effect) == idx + 1

(***************************************************************************)
(* run_full_scrape.                                                        *)
(***************************************************************************)
\* the sources of GRANT_SOURCES that a run of the model scrapes
NumSources == 2

\* Mutant: the last record of a fingerprint wins.
RECURSIVE DedupeLast(_, _)
DedupeLast(grants, seen_ids) ==
  IF grants = <<>> THEN <<>>
  ELSE LET g == Head(grants)
           later == {Tail(grants)[i].v[kExternalId] : i \in 1..(Len(grants) - 1)}
       IN IF g.v[kExternalId] \in later
          THEN DedupeLast(Tail(grants), seen_ids)
          ELSE <<g>> \o DedupeLast(Tail(grants), seen_ids)

\* Mutant: nothing is deduplicated.
DedupeNone(grants, seen_ids) == grants

\* lines 508-513: the loop over all_grants with seen_ids
RECURSIVE Dedupe(_, _)
Dedupe(grants, seen_ids) ==
  IF grants = <<>> THEN <<>>
  ELSE LET g == Head(grants) IN
    IF g.v[kExternalId] \notin seen_ids
    THEN <<g>> \o Dedupe(Tail(grants), seen_ids \cup {g.v[kExternalId]})
    ELSE Dedupe(Tail(grants), seen_ids)

\* Mutant: an exception ends the loop over the sources.
NextSourceAbort(idx, raised) == IF raised THEN NumSources + 1 ELSE idx + 1

\* lines 488-505: the loop goes on to the next source, after an exception too
NextSource(idx, raised) == idx + 1

\* lines 494-498 and 501-505: the entry of a source in source_results
SourceEntry(raised, result) ==
  IF raised
  THEN [grants_found |-> 0, status |-> "error",
        keys |-> {"grants_found", "status", "error"}, debug |-> result.debug]
  ELSE [grants_found |-> Len(result.grants), status |-> "success",
        keys |-> {"grants_found", "status", "debug"}, debug |-> result.debug]

\* the responses of the model in a run
RunElements ==
  << Put(Rec(StrV(<<"A">>), StrV(<<"B">>)), kDescription, StrV(<<"d">>)),
     Put(Rec(StrV(<<"a", " ">>), StrV(<<"B">>)), kDescription, StrV(<<"e">>)),
     Put(Rec(StrV(<<"X">>), StrV(<<"B">>)), kApplicationUrl, StrV(<<"app">>)) >>

\* what scrape_and_extract.remote.aio(source) does in a run: the remote call
\* raises, or the function returns for these outcomes of its collaborators
\* (the page is not fetched; one record; two records in a fence and a third
\* one; one record that has no provider)
RunOutcomes ==
  { [raised |-> TRUE, crawl |-> CrawlGood, llm |-> LlmRaise],
    [raised |-> FALSE, crawl |-> CrawlFailed, llm |-> LlmRaise],
    [raised |-> FALSE, crawl |-> CrawlGood,
     llm |-> LlmText(Dump(ListV(<<RunElements[1]>>)))],
    [raised |-> FALSE, crawl |-> CrawlGood,
     llm |-> LlmText(<<FENCE, "json", "\n">>
                     \o Dump(ListV(<<RunElements[2], RunElements[3]>>))
                     \o <<"\n", FENCE>>)],
    [raised |-> FALSE, crawl |-> CrawlGood,
     llm |-> LlmText(Dump(ListV(<<DictV(kName :> StrV(<<"X">>))>>)))] }

(***************************************************************************)
(* State.                                                                  *)
(***************************************************************************)
VARIABLES
  pc,              \* the position of the program
  xin,             \* scrape_and_extract: the source, the collaborators' outcomes
  xout,            \* scrape_and_extract: the returned dict
  v_in,            \* validate_grant_urls: grants
  v_idx,           \* validate_grant_urls: the position of the loop in grants
  valid_grants,    \* validate_grant_urls: valid_grants
  filtered_grants, \* validate_grant_urls: filtered_grants
  probes,          \* the requests sent so far, each with the index of its record
  u_in,            \* upsert_grants: grants
  u_idx,           \* upsert_grants: the position of the loop in grants
  inserted,        \* upsert_grants: inserted
  updated,         \* upsert_grants: updated
  errors,          \* upsert_grants: errors
  db_calls,        \* the requests sent to the table, each with the index of its record
  pre_store,       \* the table when upsert_grants was called
  store,           \* the table "grants" of the storage collaborator
  now,             \* the clock (datetime.utcnow), one tick per reconciliation
  runs,            \* the harvest runs (or calls of upsert_grants) started so far
  src_idx,         \* run_full_scrape: the position of the loop in GRANT_SOURCES
  extracted,       \* what each source scraped so far gave: raised, grants
  all_grants,      \* run_full_scrape: all_grants
  source_results,  \* run_full_scrape: source_results
  unique_grants,   \* run_full_scrape: unique_grants
  summary,         \* run_full_scrape: the returned dict
  id_in,           \* generate_grant_id: the two (name, provider) pairs it is tried on
  id_out,          \* generate_grant_id: the fingerprints of the two pairs
  procs            \* overlapping runs: the position and locals of each upsert_grants

xvars == <<xin, xout>>
fvars == <<v_in, v_idx, valid_grants, filtered_grants, probes>>
uvars == <<u_in, u_idx, inserted, updated, errors, db_calls, pre_store>>
rvars == <<src_idx, extracted, all_grants, source_results, unique_grants, summary>>
ivars == <<id_in, id_out>>
cvars == <<procs>>
vars == <<pc, xvars, fvars, uvars, store, now, runs, rvars, ivars, cvars>>

NoCall == [source |-> GRANT_SOURCES[1], crawl |-> CrawlGood, llm |-> LlmRaise,
           shape |-> "none", value |-> NullV, prefix |-> <<>>, suffix |-> <<>>]
NoResult == Returned(<<>>, DebugInfo(GRANT_SOURCES[1]), FALSE)

(***************************************************************************)
(* SpecExtract: one call of scrape_and_extract on every input.             *)
(***************************************************************************)
\* a call whose page is usable and whose response holds the JSON value
TextCall(source, prefix, value, suffix) ==
  [source |-> source, crawl |-> CrawlGood,
   llm |-> LlmText(prefix \o Dump(value) \o suffix),
   shape |-> "text", value |-> value, prefix |-> prefix, suffix |-> suffix]

\* a call that fails before the response is read
FailingCall(source, crawl, llm) ==
  [source |-> source, crawl |-> crawl, llm |-> llm,
   shape |-> "none", value |-> NullV, prefix |-> <<>>, suffix |-> <<>>]

ExtractCalls ==
  {TextCall(GRANT_SOURCES[1], p, v, x) :
     p \in Prefixes, v \in Payloads, x \in Suffixes}
  \cup {FailingCall(GRANT_SOURCES[5], c, l) :
          c \in CrawlOutcomes,
          l \in {LlmRaise, LlmText(<<"no", " ", "grants">>)}}

\* no call of validate_grant_urls is under way
FilterIdle ==
  /\ v_in = <<>>
  /\ v_idx = 1
  /\ valid_grants = <<>>
  /\ filtered_grants = <<>>
  /\ probes = <<>>

\* no call of upsert_grants is under way
UpsertIdle ==
  /\ u_in = <<>>
  /\ u_idx = 1
  /\ inserted = 0
  /\ updated = 0
  /\ errors = 0
  /\ db_calls = <<>>
  /\ pre_store = <<>>

NoSummary ==
  [returned |-> FALSE, total_grants_found |-> 0, valid_grants |-> 0,
   filtered_grants |-> <<>>, sources |-> <<>>,
   database |-> [inserted |-> 0, updated |-> 0, errors |-> 0]]

\* generate_grant_id is not under check
IdIdle ==
  /\ id_in = <<>>
  /\ id_out = <<>>

\* no runs overlap
OverlapIdle == procs = <<>>

\* no run is under way
RunIdle ==
  /\ src_idx = 1
  /\ extracted = <<>>
  /\ all_grants = <<>>
  /\ source_results = <<>>
  /\ unique_grants = <<>>
  /\ summary = NoSummary

InitExtract ==
  /\ IdIdle
  /\ OverlapIdle
  /\ pc = "extract"
  /\ xin \in ExtractCalls
  /\ xout = NoResult
  /\ FilterIdle
  /\ UpsertIdle
  /\ RunIdle
  /\ store = <<>>
  /\ now = 0
  /\ runs = 0

\* scrape_and_extract(source)
Extract ==
  /\ pc = "extract"
  /\ xout' = ScrapeAndExtract(xin.source, xin.crawl, xin.llm)
  /\ pc' = "extracted"
  /\ UNCHANGED <<ivars, cvars, xin, fvars, uvars, store, now, runs, rvars>>

NextExtract == Extract

SpecExtract == InitExtract /\ [][NextExtract]_vars

(***************************************************************************)
(* Claims on scrape_and_extract, checked under SpecExtract.                *)
(***************************************************************************)
\* the call returned the records of `expected`, validated and annotated
Recovered(expected) ==
  /\ xout.debug.grants_count_before_validation = Len(expected)
  /\ xout.grants = ValidGrants(expected, xin.source)

\* the record list the claim gives for a single JSON object
ObjectRecords(obj) ==
  IF kGrants \in DOMAIN obj.v /\ obj.v[kGrants].t = "list"
  THEN obj.v[kGrants].v
  ELSE <<obj>>

RECURSIVE NoBracketInText(_)
\* no string of the value holds "[", "]" or the fence
NoBracketInText(x) ==
  CASE x.t = "str" -> \A i \in 1..Len(x.v) : x.v[i] \notin {"[", "]", FENCE}
    [] x.t = "list" -> \A i \in 1..Len(x.v) : NoBracketInText(x.v[i])
    [] x.t = "dict" -> \A k \in DOMAIN x.v : NoBracketInText(x.v[k])
    [] OTHER -> TRUE

\* C2: when the response is a single JSON object, the records recovered are
\* the list under its `grants` key if that key holds a list, and else the
\* object itself as one record, whatever fields the object carries.  (Stated
\* here for the objects none of whose strings holds a bracket: the claim
\* fails on them already.)
C2_ObjectRecovered ==
  (/\ pc = "extracted"
   /\ xin.shape = "text"
   /\ xin.value.t = "dict"
   /\ NoBracketInText(xin.value)
   /\ xin.prefix = <<>>
   /\ xin.suffix = <<>>)
  => Recovered(ObjectRecords(xin.value))

\* C3 as stated: every record that survives validation has a name and a
\* provider that are both non-empty strings.
C3_NonEmptyStrings ==
  pc = "extracted" =>
    \A i \in 1..Len(xout.grants) :
      /\ xout.grants[i].v[kName].t = "str"
      /\ xout.grants[i].v[kName].v # <<>>
      /\ xout.grants[i].v[kProvider].t = "str"
      /\ xout.grants[i].v[kProvider].v # <<>>

\* C3 as amended: every record that survives validation is an object that
\* has a name and a provider, both strings (the empty string included).
C3_NameProviderStrings ==
  pc = "extracted" =>
    \A i \in 1..Len(xout.grants) :
      /\ xout.grants[i].t = "dict"
      /\ kName \in DOMAIN xout.grants[i].v
      /\ kProvider \in DOMAIN xout.grants[i].v
      /\ xout.grants[i].v[kName].t = "str"
      /\ xout.grants[i].v[kProvider].t = "str"

\* C3's case: a batch of which one element is rejected for a name that is no
\* string and another survives with an empty name.
C3_Witness ==
  /\ pc = "extracted"
  /\ \E i \in DOMAIN xout.debug.skip_reasons :
       xout.debug.skip_reasons[i] = "Name not string"
  /\ \E i \in 1..Len(xout.grants) : xout.grants[i].v[kName].v = <<>>

\* the array stands in a fenced block that is closed, or follows prose that
\* holds no "[" and is followed by text that holds no fence
PlainFraming(prefix, suffix) ==
  \/ /\ prefix # <<>>
     /\ prefix[1] = FENCE
     /\ Contains(suffix, Fence)
  \/ /\ ~Contains(prefix, Fence)
     /\ ~Contains(prefix, <<"[">>)
     /\ ~Contains(suffix, Fence)

\* C7: for a response made of optional leading prose or a fence, a JSON
\* array of records and any trailing text, the records recovered are exactly
\* the records of that array.  (Stated here for the responses whose prose
\* holds no "[" and whose fences are paired: the claim fails on them already.)
C7_ArrayRecovered ==
  (/\ pc = "extracted"
   /\ xin.shape = "text"
   /\ xin.value.t = "list"
   /\ \A i \in 1..Len(xin.value.v) : xin.value.v[i].t = "dict"
   /\ PlainFraming(xin.prefix, xin.suffix))
  => Recovered(xin.value.v)

(***************************************************************************)
(* SpecFilter: one call of validate_grant_urls on every input.             *)
(***************************************************************************)
\* records as scrape_and_extract returns them, and records that carry no URL
\* or a URL that is no string
FilterGrants ==
  LET a == Annotate(RunElements[1], GRANT_SOURCES[1])
      x == Annotate(RunElements[3], GRANT_SOURCES[2])
  IN { a,
       x,
       Put(a, kApplicationUrl, NullV),
       Put(Put(a, kApplicationUrl, StrV(<<>>)), kSourceUrl, StrV(<<>>)),
       DictV([k \in DOMAIN x.v \ {kApplicationUrl, kSourceUrl} |-> x.v[k]]),
       Put(x, kApplicationUrl, NumV("5")) }

InitFilter ==
  /\ IdIdle
  /\ OverlapIdle
  /\ pc = "validate"
  /\ v_in \in SeqsUpTo(FilterGrants, MaxBatch)
  /\ v_idx = 1
  /\ valid_grants = <<>>
  /\ filtered_grants = <<>>
  /\ probes = <<>>
  /\ xin = NoCall
  /\ xout = NoResult
  /\ UpsertIdle
  /\ RunIdle
  /\ store = <<>>
  /\ now = 0
  /\ runs = 0

\* the requests of the record at position i of grants
Tagged(requests, i) ==
  [k \in 1..Len(requests) |->
     [grant |-> i, method |-> requests[k].method, url |-> requests[k].url,
      outcome |-> requests[k].outcome]]

\* lines 108-141: one iteration of the loop of validate_grant_urls
ValidateStep ==
  /\ pc = "validate"
  /\ v_idx <= Len(v_in)
  /\ \E head \in HeadChoices(EffectiveUrl(v_in[v_idx])) :
       \E get \in (IF NeedsGet(head) THEN GetOutcomes ELSE {NoRequest}) :
         LET r == Probe(v_in[v_idx], head, get) IN
         /\ valid_grants' =
              IF r.keep THEN Append(valid_grants, v_in[v_idx]) ELSE valid_grants
         /\ filtered_grants' =
              IF r.keep THEN filtered_grants
              ELSE Append(filtered_grants,
                          FilteredEntry(v_in[v_idx], EffectiveUrl(v_in[v_idx])))
         /\ probes' = probes \o Tagged(r.requests, v_idx)
  /\ v_idx' = v_idx + 1
  /\ UNCHANGED <<ivars, cvars, pc, v_in, xvars, uvars, store, now, runs, rvars>>

\* line 143: return valid_grants, filtered_grants
ValidateReturn ==
  /\ pc = "validate"
  /\ v_idx > Len(v_in)
  /\ pc' = "validated"
  /\ UNCHANGED <<ivars, cvars, xvars, fvars, uvars, store, now, runs, rvars>>

NextFilter == ValidateStep \/ ValidateReturn

SpecFilter == InitFilter /\ [][NextFilter]_vars

(***************************************************************************)
(* Claims on validate_grant_urls, checked under SpecFilter.                *)
(***************************************************************************)
\* the requests sent for the record at position i
ProbesOf(i) == {k \in 1..Len(probes) : probes[k].grant = i}

\* the last request sent for the record at position i
LastProbe(i) == probes[CHOOSE k \in ProbesOf(i) : \A j \in ProbesOf(i) : j <= k]

\* the probe of the record at position i resolved to status 404
NotFound(i) ==
  /\ ProbesOf(i) # {}
  /\ LastProbe(i).outcome.kind = "status"
  /\ LastProbe(i).outcome.code = 404

RECURSIVE ExpectExcluded(_)
\* an entry for each record from position i on whose probe resolved to 404
ExpectExcluded(i) ==
  IF i > Len(v_in) THEN <<>>
  ELSE (IF NotFound(i)
        THEN <<[name |-> v_in[i].v[kName], provider |-> v_in[i].v[kProvider],
                url |-> LastProbe(i).url, reason |-> "404 Not Found"]>>
        ELSE <<>>) \o ExpectExcluded(i + 1)

RECURSIVE ExpectLive(_)
\* the records from position i on whose probe did not resolve to 404
ExpectLive(i) ==
  IF i > Len(v_in) THEN <<>>
  ELSE (IF NotFound(i) THEN <<>> ELSE <<v_in[i]>>) \o ExpectLive(i + 1)

\* C4: a record is excluded if and only if its probe resolves to status 404,
\* and its entry carries its name, its provider, the probed URL and the
\* not-found reason (spelled "404 Not Found" by the code); for every other
\* outcome (success, another status, timeout, connection or protocol error)
\* the record is kept in the live list.
C4_ExcludedIffNotFound ==
  pc = "validated" =>
    /\ filtered_grants = ExpectExcluded(1)
    /\ valid_grants = ExpectLive(1)

\* C4's case: a call returned with one record excluded for a 404 and another
\* kept although its probe timed out.
C4_Witness ==
  /\ pc = "validated"
  /\ Len(filtered_grants) = 1
  /\ Len(valid_grants) = 1
  /\ \E k \in 1..Len(probes) :
       /\ probes[k].outcome = Raises("TimeoutException")
       /\ ~NotFound(probes[k].grant)

(***************************************************************************)
(* SpecUpsert: calls of upsert_grants, one after the other, on one table.  *)
(***************************************************************************)
\* records as run_full_scrape passes them on
UpsertGrants ==
  LET ab == Rec(StrV(<<"A">>), StrV(<<"B">>))
      s1 == GRANT_SOURCES[1]
  IN { Annotate(Put(Put(ab, kDescription, StrV(<<"d">>)), kSectors,
                    ListV(<<StrV(<<"all">>)>>)), s1),
       Annotate(Put(ab, kDescription, StrV(<<"e">>)), s1),
       Annotate(Put(ab, kSectors, NullV), s1),
       Annotate(Put(ab, kDescription, StrV(<<>>)), s1),
       Annotate(RunElements[2], GRANT_SOURCES[2]),
       Annotate(RunElements[3], GRANT_SOURCES[5]) }

\* no two records of the batch have the same fingerprint
Deduped(batch) ==
  \A i, j \in 1..Len(batch) :
    batch[i].v[kExternalId] = batch[j].v[kExternalId] => i = j

Batches == {b \in SeqsUpTo(UpsertGrants, MaxBatch) : Deduped(b)}

InitUpsert ==
  /\ IdIdle
  /\ OverlapIdle
  /\ pc = "idle"
  /\ UpsertIdle
  /\ store = <<>>
  /\ now = 0
  /\ runs = 0
  /\ xin = NoCall
  /\ xout = NoResult
  /\ FilterIdle
  /\ RunIdle

\* lines 398-412: upsert_grants is entered with `batch`
BeginUpsert(batch) ==
  /\ u_in' = batch
  /\ u_idx' = 1
  /\ inserted' = 0
  /\ updated' = 0
  /\ errors' = 0
  /\ db_calls' = <<>>
  /\ pre_store' = store
  /\ now' = now + 1
  /\ pc' = "upsert"

\* upsert_grants(batch), called on its own
UpsertCall ==
  /\ pc \in {"idle", "upserted", "raised"}
  /\ runs < MaxCalls
  /\ runs' = runs + 1
  /\ \E batch \in Batches : BeginUpsert(batch)
  /\ UNCHANGED <<ivars, cvars, xvars, fvars, store, rvars>>

\* the requests of the record at position i of grants
TaggedCalls(calls, i) ==
  [k \in 1..Len(calls) |-> [grant |-> i, op |-> calls[k].op, ok |-> calls[k].ok]]

\* lines 414-468: one iteration of the loop of upsert_grants
UpsertStep ==
  /\ pc = "upsert"
  /\ u_idx <= Len(u_in)
  /\ \E outcome \in StorageOutcomes :
       LET e == UpsertOne(store, u_in[u_idx], outcome, now) IN
       /\ store' = e.store
       /\ inserted' = inserted + e.inserted
       /\ updated' = updated + e.updated
       /\ errors' = errors + e.errors
       /\ db_calls' = db_calls \o TaggedCalls(e.calls, u_idx)
       /\ u_idx' = NextRecord(u_idx, Len(u_in), e)
  /\ UNCHANGED <<ivars, cvars, pc, u_in, pre_store, now, runs, xvars, fvars, rvars>>

\* lines 402-403 and 470: return the counters
UpsertReturn ==
  /\ pc = "upsert"
  /\ u_idx > Len(u_in)
  /\ pc' = "upserted"
  /\ UNCHANGED <<ivars, cvars, xvars, fvars, uvars, store, now, runs, rvars>>

\* lines 405-408: os.environ[...] or create_client raises, before the loop
UpsertClientError ==
  /\ pc = "upsert"
  /\ ~ReturnsAtOnce(u_in)
  /\ u_idx = 1
  /\ pc' = "raised"
  /\ UNCHANGED <<ivars, cvars, xvars, fvars, uvars, store, now, runs, rvars>>

NextUpsert == UpsertCall \/ UpsertStep \/ UpsertReturn \/ UpsertClientError

SpecUpsert == InitUpsert /\ [][NextUpsert]_vars

(***************************************************************************)
(* Claims on upsert_grants, checked under SpecUpsert.                      *)
(***************************************************************************)
\* the requests sent for the record at position i
CallsOf(i) == {k \in 1..Len(db_calls) : db_calls[k].grant = i}

\* a request of the record at position i raised
Failed(i) == \E k \in CallsOf(i) : ~db_calls[k].ok

\* the record at position i was inserted or updated
Written(i) ==
  \E k \in CallsOf(i) : db_calls[k].op \in {"insert", "update"} /\ db_calls[k].ok

\* a call returned that reconciled one record without a storage error
ReconciledOne ==
  /\ pc = "upserted"
  /\ Len(u_in) = 1
  /\ errors = 0

\* the counters and the number of rows, for a record that was not stored
\* and for one that was
CountsOfOne ==
  IF Existing(pre_store, u_in[1]) = {}
  THEN /\ inserted = 1
       /\ updated = 0
       /\ Len(store) = Len(pre_store) + 1
  ELSE /\ updated = 1
       /\ inserted = 0
       /\ Len(store) = Len(pre_store)

C8_ErrorsIsolated ==
  pc = "upserted" =>
    /\ inserted + updated + errors = Len(u_in)
    /\ errors = Cardinality({i \in 1..Len(u_in) : Failed(i)})
    /\ \A i \in 1..Len(u_in) :
         /\ \E k \in CallsOf(i) : db_calls[k].op = "select"
         /\ Failed(i) \/ Written(i)

\* C8's case: the first record of a batch met a storage error and the
\* second one was written.
C8_Witness ==
  /\ pc = "upserted"
  /\ Len(u_in) = 2
  /\ Failed(1)
  /\ Written(2)
  /\ errors = 1

\* an optional field is missing or null in the record
Missing(grant, k) == k \notin DOMAIN grant.v \/ grant.v[k] = NullV

\* C10: for every record written by upsert_grants, sectors and stages that
\* are missing or null in the record are stored as empty arrays and an
\* eligibility_criteria that is missing or null as an empty object, and no
\* stored description, sectors, stages or eligibility_criteria is null.
\* (The claim also gives the empty string for a missing description, where
\* the code stores "No description available": see C5.)
C10_NeutralValuesStored ==
  \A i \in 1..Len(u_in) :
    Written(i) =>
      \A r \in Existing(store, u_in[i]) :
        /\ store[r].description # NullV
        /\ store[r].sectors # NullV
        /\ store[r].stages # NullV
        /\ store[r].eligibility_criteria # NullV
        /\ Missing(u_in[i], kSectors) => store[r].sectors = ListV(<<>>)
        /\ Missing(u_in[i], kStages) => store[r].stages = ListV(<<>>)
        /\ Missing(u_in[i], kEligibility) =>
             store[r].eligibility_criteria = EmptyDict

(***************************************************************************)
(* run_full_scrape: SpecRun is one harvest run, Spec is run after run on   *)
(* the same table.                                                         *)
(***************************************************************************)
\* the table before a run: empty, or with the grants earlier runs stored
InitialStores ==
  { <<>>,
    InsertRow(<<>>, Annotate(RunElements[1], GRANT_SOURCES[1]), 0),
    InsertRow(InsertRow(<<>>, Annotate(RunElements[1], GRANT_SOURCES[1]), 0),
              Annotate(RunElements[3], GRANT_SOURCES[2]), 0) }

InitIdle ==
  /\ IdIdle
  /\ OverlapIdle
  /\ pc = "idle"
  /\ xin = NoCall
  /\ xout = NoResult
  /\ FilterIdle
  /\ UpsertIdle
  /\ RunIdle
  /\ now = 0
  /\ runs = 0

InitRun == InitIdle /\ store \in InitialStores

Init == InitIdle /\ store = <<>>

\* lines 482-485: run_full_scrape is entered
BeginRun ==
  /\ runs' = runs + 1
  /\ pc' = "scrape"
  /\ src_idx' = 1
  /\ extracted' = <<>>
  /\ all_grants' = <<>>
  /\ source_results' = <<>>
  /\ unique_grants' = <<>>
  /\ summary' = NoSummary
  /\ v_in' = <<>>
  /\ v_idx' = 1
  /\ valid_grants' = <<>>
  /\ filtered_grants' = <<>>
  /\ probes' = <<>>
  /\ u_in' = <<>>
  /\ u_idx' = 1
  /\ inserted' = 0
  /\ updated' = 0
  /\ errors' = 0
  /\ db_calls' = <<>>
  /\ pre_store' = store
  /\ UNCHANGED <<ivars, cvars, xvars, store, now>>

\* the first run (scheduled_scrape, trigger_scrape or main calls it)
StartRun ==
  /\ pc = "idle"
  /\ BeginRun

\* a later run, after the one before returned, raised or was ended
Rerun ==
  /\ pc \in {"done", "raised", "timed_out"}
  /\ runs < MaxRuns
  /\ BeginRun

\* lines 488-505: one iteration of the loop over GRANT_SOURCES
ScrapeSource ==
  /\ pc = "scrape"
  /\ src_idx <= NumSources
  /\ \E o \in RunOutcomes :
       LET source == GRANT_SOURCES[src_idx]
           result == ScrapeAndExtract(source, o.crawl, o.llm)
           grants == IF o.raised THEN <<>> ELSE result.grants
       IN
       /\ all_grants' = all_grants \o grants
       /\ source_results' =
            (source.name :> SourceEntry(o.raised, result)) @@ source_results
       /\ extracted' = Append(extracted, [raised |-> o.raised, grants |-> grants])
       /\ src_idx' = NextSource(src_idx, o.raised)
  /\ UNCHANGED <<ivars, cvars, pc, unique_grants, summary, xvars, fvars, uvars, store, now, runs>>

\* lines 507-519: deduplicate, then call validate_grant_urls(unique_grants)
DedupAndValidate ==
  /\ pc = "scrape"
  /\ src_idx > NumSources
  /\ unique_grants' = Dedupe(all_grants, {})
  /\ v_in' = unique_grants'
  /\ v_idx' = 1
  /\ valid_grants' = <<>>
  /\ filtered_grants' = <<>>
  /\ probes' = <<>>
  /\ pc' = "validate"
  /\ UNCHANGED <<ivars, cvars, src_idx, extracted, all_grants, source_results, summary,
                 xvars, uvars, store, now, runs>>

\* line 523: upsert_grants.remote(valid_grants)
CallUpsert ==
  /\ pc = "validated"
  /\ runs > 0
  /\ BeginUpsert(valid_grants)
  /\ UNCHANGED <<ivars, cvars, xvars, fvars, store, runs, rvars>>

\* lines 525-532: return the summary
Finish ==
  /\ pc = "upserted"
  /\ summary.returned = FALSE
  /\ src_idx > NumSources
  /\ summary' =
       [returned |-> TRUE,
        total_grants_found |-> Len(unique_grants),
        valid_grants |-> Len(valid_grants),
        filtered_grants |-> filtered_grants,
        sources |-> source_results,
        database |-> [inserted |-> inserted, updated |-> updated,
                      errors |-> errors]]
  /\ pc' = "done"
  /\ UNCHANGED <<ivars, cvars, src_idx, extracted, all_grants, source_results, unique_grants,
                 xvars, fvars, uvars, store, now, runs>>

\* line 478: timeout=1800.  The platform ends the call of run_full_scrape
\* when the timeout is reached; the function has no handler for it, so the
\* locals of the run are lost and the caller gets no summary.  The time a
\* remote call of scrape_and_extract takes is not bounded by the code of the
\* orchestrator, so the timeout may be reached at any point of the loop over
\* the sources, of deduplication or of the liveness filter.  (A timeout
\* while upsert_grants runs in its own container is left out: what the
\* platform does with the callee is not in the code.)
Deadline ==
  /\ pc \in {"scrape", "validate", "validated"}
  /\ runs > 0
  /\ pc' = "timed_out"
  /\ UNCHANGED <<ivars, cvars, xvars, fvars, uvars, store, now, runs, rvars>>

RunSteps ==
  \/ ScrapeSource
  \/ DedupAndValidate
  \/ ValidateStep
  \/ ValidateReturn
  \/ CallUpsert
  \/ UpsertStep
  \/ UpsertReturn
  \/ UpsertClientError
  \/ Finish
  \/ Deadline

NextRun == StartRun \/ RunSteps

SpecRun == InitRun /\ [][NextRun]_vars

Next == StartRun \/ Rerun \/ RunSteps

Spec == Init /\ [][Next]_vars

(***************************************************************************)
(* Claims on run_full_scrape.                                              *)
(***************************************************************************)
\* the fingerprint of a stored grant
RowFingerprint(row) == generate_grant_id(row.name.v, row.provider.v)

\* C1: after any sequence of harvest runs the store holds at most one grant
\* per fingerprint: a later sighting of a stored fingerprint updates the row
\* and never inserts a second one.  Checked under Spec.
C1_OneRowPerFingerprint ==
  \A i, j \in 1..Len(store) :
    RowFingerprint(store[i]) = RowFingerprint(store[j]) => i = j

RECURSIVE Flatten(_)
\* the records of the sources, in the order of the sources
Flatten(results) ==
  IF results = <<>> THEN <<>>
  ELSE Head(results).grants \o Flatten(Tail(results))

\* the record at position i is the earliest one with its fingerprint
IsFirst(grants, i) ==
  \A j \in 1..(i - 1) : grants[j].v[kExternalId] # grants[i].v[kExternalId]

RECURSIVE FirstOccurrences(_, _)
\* the records from position i on that are the earliest of their fingerprint
FirstOccurrences(grants, i) ==
  IF i > Len(grants) THEN <<>>
  ELSE (IF IsFirst(grants, i) THEN <<grants[i]>> ELSE <<>>)
       \o FirstOccurrences(grants, i + 1)

\* the run has deduplicated the records
Deduplicated == pc \in {"validate", "validated", "upsert", "upserted", "done"}

\* C6: over the records of the sources in the configured order, and in
\* extraction order within a source, deduplication keeps exactly one record
\* per fingerprint, the earliest one, in the order of these first
\* occurrences.  Checked under SpecRun.
C6_FirstOccurrenceWins ==
  Deduplicated =>
    /\ all_grants = Flatten(extracted)
    /\ unique_grants = FirstOccurrences(all_grants, 1)
    /\ Len(unique_grants) =
         Cardinality({all_grants[i].v[kExternalId] : i \in 1..Len(all_grants)})

\* C6's case: two sources gave a record of the same fingerprint with
\* different fields, and one of another fingerprint; the first is kept.
C6_Witness ==
  /\ Deduplicated
  /\ Len(all_grants) = 3
  /\ Len(unique_grants) = 2
  /\ all_grants[1].v[kExternalId] = all_grants[2].v[kExternalId]
  /\ all_grants[1] # all_grants[2]
  /\ unique_grants[1] = all_grants[1]

\* C9: an exception raised while a source is extracted is recorded as that
\* source's outcome with status "error" and grants_found 0, every other
\* source is still extracted, the records of the sources that succeeded
\* reach deduplication, and the summary holds one entry for each configured
\* source.  Checked under SpecRun.
C9_SourceErrorsIsolated ==
  pc = "done" =>
    /\ Len(extracted) = NumSources
    /\ DOMAIN summary.sources = {GRANT_SOURCES[i].name : i \in 1..NumSources}
    /\ \A i \in 1..NumSources :
         LET entry == summary.sources[GRANT_SOURCES[i].name] IN
         IF extracted[i].raised
         THEN entry.status = "error" /\ entry.grants_found = 0
         ELSE /\ entry.status = "success"
              /\ entry.grants_found = Len(extracted[i].grants)
              /\ \A k \in 1..Len(extracted[i].grants) :
                   \E n \in 1..Len(all_grants) :
                     all_grants[n] = extracted[i].grants[k]
    /\ summary.total_grants_found = Len(FirstOccurrences(Flatten(extracted), 1))

\* C9's case: the first source raised, a later one gave records, and the run
\* returned its summary with these records counted.
C9_Witness ==
  /\ pc = "done"
  /\ extracted[1].raised
  /\ \E i \in 2..NumSources : extracted[i].grants # <<>>
  /\ summary.total_grants_found > 0

(***************************************************************************)
(* SpecId: generate_grant_id on two (name, provider) pairs.                *)
(***************************************************************************)
\* names and providers: upper and lower case, blanks around, the "-" that
\* generate_grant_id joins the two texts with
IdTexts ==
  { <<"a">>, <<"A">>, <<" ", "a">>, <<"a", " ">>, <<"b">>, <<"c">>,
    <<"a", "-", "b">>, <<"b", "-", "c">> }

IdPairs == {[name |-> n, provider |-> p] : n \in IdTexts, p \in IdTexts}

InitId ==
  /\ pc = "id"
  /\ id_in \in {<<p, q>> : p \in IdPairs, q \in IdPairs}
  /\ id_out = <<>>
  /\ OverlapIdle
  /\ xin = NoCall
  /\ xout = NoResult
  /\ FilterIdle
  /\ UpsertIdle
  /\ RunIdle
  /\ store = <<>>
  /\ now = 0
  /\ runs = 0

\* generate_grant_id(name, provider) for each of the two pairs
Fingerprint ==
  /\ pc = "id"
  /\ id_out' = [i \in 1..2 |->
                  generate_grant_id(id_in[i].name, id_in[i].provider)]
  /\ pc' = "id_done"
  /\ UNCHANGED <<id_in, cvars, xvars, fvars, uvars, store, now, runs, rvars>>

NextId == Fingerprint

SpecId == InitId /\ [][NextId]_vars

\* a pair after lower-casing and trimming of name and of provider
Normalized(pair) ==
  [name |-> Strip(Lower(pair.name)), provider |-> Strip(Lower(pair.provider))]

\* C11: two (name, provider) pairs get the same fingerprint if and only if
\* they are equal after lower-casing and trimming of name and of provider.
\* Checked under SpecId.
C11_SameIdIffSameNormalizedPair ==
  pc = "id_done" =>
    (id_out[1] = id_out[2] <=> Normalized(id_in[1]) = Normalized(id_in[2]))

(***************************************************************************)
(* Further claims on validate_grant_urls, checked under SpecFilter.        *)
(***************************************************************************)
\* the first request sent for the record at position i
FirstProbe(i) == probes[CHOOSE k \in ProbesOf(i) : \A j \in ProbesOf(i) : k <= j]

\* the GET requests sent for the record at position i
GetsOf(i) == {k \in ProbesOf(i) : probes[k].method = "GET"}

\* the request failed at the protocol level: httpx.ProtocolError (here
\* RemoteProtocolError), or the httpx.HTTPStatusError the code catches
ProtocolLevelError(outcome) ==
  /\ outcome.kind = "raise"
  /\ outcome.exc \in {"RemoteProtocolError", "HTTPStatusError"}

\* C12: for each record with an effective URL the first request is a HEAD;
\* when the HEAD fails with a protocol-level error exactly one GET follows
\* and the verdict is that of the GET; no GET is sent when the HEAD returned
\* a response.
C12_GetAfterProtocolError ==
  pc = "validated" =>
    \A i \in 1..Len(v_in) :
      Truthy(EffectiveUrl(v_in[i])) =>
        /\ ProbesOf(i) # {}
        /\ FirstProbe(i).method = "HEAD"
        /\ FirstProbe(i).outcome.kind = "status" => GetsOf(i) = {}
        /\ ProtocolLevelError(FirstProbe(i).outcome) =>
             /\ Cardinality(GetsOf(i)) = 1
             /\ LastProbe(i).method = "GET"

(***************************************************************************)
(* Further claims on run_full_scrape.                                      *)
(***************************************************************************)
\* the identity of a record and of a stored grant: name and provider,
\* lower-cased and trimmed
IdentityOf(grant) ==
  Normalized([name |-> grant.v[kName].v, provider |-> grant.v[kProvider].v])

RowIdentity(row) == Normalized([name |-> row.name.v, provider |-> row.provider.v])

\* the positions of the records of `grants` with the identity `id`
WithIdentity(grants, id) == {k \in 1..Len(grants) : IdentityOf(grants[k]) = id}

\* the rows of the table with the identity `id`
RowsWithIdentity(table, id) == {r \in 1..Len(table) : RowIdentity(table[r]) = id}

\* the sources gave the record at position i of all_grants a second time
\* with another description
SeenTwice(i) ==
  \E j \in 1..Len(all_grants) :
    /\ j # i
    /\ IdentityOf(all_grants[j]) = IdentityOf(all_grants[i])
    /\ Get(all_grants[j], kDescription, NullV)
         # Get(all_grants[i], kDescription, NullV)

\* the earliest record of all_grants with the identity `id`
FirstSeen(id) ==
  all_grants[CHOOSE k \in WithIdentity(all_grants, id) :
               \A j \in WithIdentity(all_grants, id) : k <= j]

\* a run on an empty table returned, every link answered 200 and no storage
\* request raised
CleanRun ==
  /\ pc = "done"
  /\ pre_store = <<>>
  /\ errors = 0
  /\ \A k \in 1..Len(probes) : probes[k].outcome = Status(200)

\* C13: in a run on an empty table with every link reachable and no storage
\* error, a record that several sources gave with the same normalized name
\* and provider and different descriptions survives deduplication and the
\* liveness filter exactly once, the table ends with exactly one grant of
\* that identity whose fields are those of the first version, and that
\* record is inserted (not updated, no error).  Checked under SpecRun.
C13_FirstVersionStoredOnce ==
  CleanRun =>
    \A i \in 1..Len(all_grants) :
      SeenTwice(i) =>
        LET id == IdentityOf(all_grants[i])
            first == FirstSeen(id)
        IN /\ Cardinality(WithIdentity(unique_grants, id)) = 1
           /\ Cardinality(WithIdentity(valid_grants, id)) = 1
           /\ Cardinality(RowsWithIdentity(store, id)) = 1
           /\ \A r \in RowsWithIdentity(store, id) :
                /\ store[r].name = first.v[kName]
                /\ store[r].provider = first.v[kProvider]
                /\ Truthy(Get(first, kDescription, NullV)) =>
                     store[r].description = first.v[kDescription]
                /\ store[r].url \in {first.v[kSourceUrl],
                                     Get(first, kApplicationUrl, NullV)}
           /\ \A k \in WithIdentity(u_in, id) :
                /\ u_in[k] = first
                /\ \A c \in CallsOf(k) :
                     db_calls[c].ok /\ db_calls[c].op \in {"select", "insert"}
                /\ \E c \in CallsOf(k) : db_calls[c].op = "insert"
           /\ summary.database =
                [inserted |-> Len(valid_grants), updated |-> 0, errors |-> 0]

\* C13's case: two sources gave the same grant with different descriptions
\* and the run on the empty table returned with the grant stored.
C13_Witness ==
  /\ CleanRun
  /\ \E i \in 1..Len(all_grants) :
       /\ SeenTwice(i)
       /\ all_grants[i] # FirstSeen(IdentityOf(all_grants[i]))
       /\ RowsWithIdentity(store, IdentityOf(all_grants[i])) # {}

\* no record of the batch has the name and the provider of the row
Unmatched(row, batch) == \A k \in 1..Len(batch) : ~Matches(row, batch[k])

\* C14: a run deletes no stored grant (every row the table held when the run
\* began is still there) and changes no field of a stored grant that matches
\* no record of the batch the run reconciles, whether the grant's record was
\* never seen or was dropped by validation, deduplication or the liveness
\* filter; its is_active in particular stays.  Checked under SpecRun.
C14_AbsentGrantsUntouched ==
  /\ Len(store) >= Len(pre_store)
  /\ \A r \in 1..Len(pre_store) :
       /\ RowIdentity(store[r]) = RowIdentity(pre_store[r])
       /\ Unmatched(pre_store[r], u_in) =>
            /\ store[r] = pre_store[r]
            /\ store[r].is_active = pre_store[r].is_active

\* C14's case: the run saw the record of a stored grant, the liveness filter
\* dropped it, the run updated another stored grant and returned, and the
\* first grant is as it was.
C14_Witness ==
  /\ pc = "done"
  /\ updated > 0
  /\ \E r \in 1..Len(pre_store) :
       /\ Unmatched(pre_store[r], u_in)
       /\ ~Unmatched(pre_store[r], unique_grants)
       /\ store[r] = pre_store[r]

(***************************************************************************)
(* Further claims on scrape_and_extract, checked under SpecExtract.        *)
(***************************************************************************)
\* the page gave at least the 100 characters the extraction asks for, as
\* markdown or as html
Usable(crawl) ==
  /\ crawl.kind = "result"
  /\ crawl.success
  /\ crawl.md >= 100 \/ crawl.html >= 100

\* the way the call fails, "none" when the claim lists no failure for it
FailureOf(call) ==
  CASE call.crawl.kind = "raise" -> "crawler exception"
    [] call.crawl.kind = "result" /\ ~call.crawl.success -> "fetch failure"
    [] call.crawl.kind = "result" /\ call.crawl.success /\ ~Usable(call.crawl)
         -> "short content"
    [] Usable(call.crawl) /\ call.llm.kind = "raise" -> "unexpected exception"
    [] Usable(call.crawl) /\ call.llm = LlmText(<<"no", " ", "grants">>)
         -> "unparseable"
    [] /\ Usable(call.crawl)
       /\ call.shape = "text"
       /\ call.value.t \notin {"dict", "list"}
       /\ call.prefix = <<>>
       /\ call.suffix = <<>> -> "neither object nor array"
    [] OTHER -> "none"

\* debug holds an entry that names a failure
NamesFailure(debug) ==
  \/ debug.error # "unset"
  \/ debug.json_error
  \/ debug.parse_type_error
  \/ debug.claude_error

\* C15 as stated: for each of page fetch failure, crawler exception, content
\* under the 100-character threshold, unparseable model output, a parsed
\* value that is neither object nor array and an unexpected exception, the
\* call returns an empty grants list and a debug entry that names the
\* failure; on content under the threshold the model is not called.
C15_FailureNamed ==
  (pc = "extracted" /\ FailureOf(xin) # "none") =>
    /\ xout.grants = <<>>
    /\ NamesFailure(xout.debug)
    /\ FailureOf(xin) = "short content" => ~xout.model_called

\* C15 as amended: the call returns an empty grants list with the entry
\* "error" for a fetch failure and a crawler exception, "json_error" for
\* unparseable output, "parse_type_error" for a value that is neither object
\* nor array and "claude_error" for an unexpected exception; for content
\* under the threshold debug names no failure and holds crawl_success true,
\* used_html_fallback true and the content_length under 100, and the model
\* is not called.
C15_FailureReported ==
  (pc = "extracted" /\ FailureOf(xin) # "none") =>
    LET f == FailureOf(xin)
        d == xout.debug
    IN /\ xout.grants = <<>>
       /\ f \in {"crawler exception", "fetch failure"} =>
            d.error # "unset" /\ ~xout.model_called
       /\ f = "unparseable" => d.json_error
       /\ f = "neither object nor array" => d.parse_type_error
       /\ f = "unexpected exception" => d.claude_error
       /\ f = "short content" =>
            /\ ~NamesFailure(d)
            /\ d.crawl_success
            /\ d.used_html_fallback
            /\ d.content_length < MinContentLength
            /\ ~xout.model_called

\* C15's case: the page gave 99 characters, the call returned no grants and
\* did not call the model.
C15_Witness ==
  /\ pc = "extracted"
  /\ FailureOf(xin) = "short content"
  /\ xin.crawl.html = 99
  /\ xout.grants = <<>>
  /\ ~xout.model_called

\* C16: when the run is ended by its deadline after some sources were
\* extracted, the records of these sources are still carried into
\* deduplication, the liveness filter and reconciliation: each of them has
\* its grant in the table.  Checked under SpecRun.
C16_CompletedWorkCarried ==
  pc = "timed_out" =>
    \A k \in 1..Len(all_grants) :
      \E r \in 1..Len(store) : Matches(store[r], all_grants[k])

\* every source was scraped and none gave a valid record
Degraded ==
  /\ runs > 0
  /\ src_idx > NumSources
  /\ all_grants = <<>>

\* C17: a run in which every source fails or gives no valid record does not
\* raise; upsert_grants sends no request to the storage collaborator and
\* returns inserted 0, updated 0, errors 0; the summary the run returns has
\* total_grants_found 0, valid_grants 0, an empty filtered list, an entry
\* for every source and the database counts 0, 0, 0.  Checked under SpecRun.
C17_DegradedRunReturns ==
  Degraded =>
    /\ pc # "raised"
    /\ db_calls = <<>>
    /\ store = pre_store
    /\ pc \in {"upserted", "done"} => inserted = 0 /\ updated = 0 /\ errors = 0
    /\ pc = "done" =>
         /\ summary.returned
         /\ summary.total_grants_found = 0
         /\ summary.valid_grants = 0
         /\ summary.filtered_grants = <<>>
         /\ DOMAIN summary.sources =
              {GRANT_SOURCES[i].name : i \in 1..NumSources}
         /\ summary.database = [inserted |-> 0, updated |-> 0, errors |-> 0]

\* C17's case: one source raised, another gave one record that is not
\* valid, and the run returned its summary.
C17_Witness ==
  /\ Degraded
  /\ pc = "done"
  /\ summary.returned
  /\ \E i \in 1..NumSources :
       summary.sources[GRANT_SOURCES[i].name].status = "error"
  /\ \E i \in 1..NumSources :
       LET entry == summary.sources[GRANT_SOURCES[i].name] IN
       /\ entry.status = "success"
       /\ entry.debug.grants_count_before_validation = 1

(***************************************************************************)
(* SpecOverlap: the scheduled run and the run of the HTTP trigger overlap. *)
(* Each run calls upsert_grants in a container of its own, on the same     *)
(* table; the lookup and the write of a record are two requests.           *)
(***************************************************************************)
\* the callers of run_full_scrape that may overlap
Triggers == {"scheduled_scrape", "trigger_scrape"}

\* the live records the two runs pass to upsert_grants
OverlapGrants ==
  { Annotate(RunElements[1], GRANT_SOURCES[1]),
    Annotate(Put(RunElements[1], kDescription, StrV(<<"e">>)), GRANT_SOURCES[1]),
    Annotate(RunElements[3], GRANT_SOURCES[2]) }

OverlapBatches == {b \in SeqsUpTo(OverlapGrants, MaxBatch) : Deduped(b)}

\* lines 398-412: upsert_grants is entered with `batch`
Entered(batch) ==
  [pc |-> "lookup", grants |-> batch, idx |-> 1, existing |-> FALSE,
   inserted |-> 0, updated |-> 0, errors |-> 0]

InitOverlap ==
  /\ pc = "overlap"
  /\ procs \in [Triggers -> {Entered(b) : b \in OverlapBatches}]
  /\ store = <<>>
  /\ now = 0
  /\ runs = 0
  /\ IdIdle
  /\ xin = NoCall
  /\ xout = NoResult
  /\ FilterIdle
  /\ UpsertIdle
  /\ RunIdle

\* lines 405-408: os.environ[...] or create_client raises, before the loop
OverlapClientError(p) ==
  /\ procs[p].pc = "lookup"
  /\ procs[p].idx = 1
  /\ ~ReturnsAtOnce(procs[p].grants)
  /\ procs' = [procs EXCEPT ![p].pc = "raised"]
  /\ UNCHANGED <<pc, ivars, xvars, fvars, uvars, store, now, runs, rvars>>

\* lines 417-423: the select of the record; lines 466-468 when it raises
OverlapLookup(p) ==
  /\ procs[p].pc = "lookup"
  /\ procs[p].idx <= Len(procs[p].grants)
  /\ \E ok \in BOOLEAN :
       procs' =
         IF ok
         THEN [procs EXCEPT
                 ![p].existing =
                   Existing(store, procs[p].grants[procs[p].idx]) # {},
                 ![p].pc = "write"]
         ELSE [procs EXCEPT ![p].errors = @ + 1, ![p].idx = @ + 1]
  /\ UNCHANGED <<pc, ivars, xvars, fvars, uvars, store, now, runs, rvars>>

\* lines 454-464: the update or the insert of the record, as the select
\* found it; lines 466-468 when it raises
OverlapWrite(p) ==
  /\ procs[p].pc = "write"
  /\ LET grant == procs[p].grants[procs[p].idx] IN
     \E ok \in BOOLEAN :
       IF ~ok
       THEN /\ procs' = [procs EXCEPT ![p].errors = @ + 1, ![p].idx = @ + 1,
                                      ![p].pc = "lookup"]
            /\ UNCHANGED <<store, now>>
       ELSE /\ now' = now + 1
            /\ IF procs[p].existing
               THEN /\ store' = UpdateRows(store, grant, now')
                    /\ procs' = [procs EXCEPT ![p].updated = @ + 1,
                                              ![p].idx = @ + 1,
                                              ![p].pc = "lookup"]
               ELSE /\ store' = InsertRow(store, grant, now')
                    /\ procs' = [procs EXCEPT ![p].inserted = @ + 1,
                                              ![p].idx = @ + 1,
                                              ![p].pc = "lookup"]
  /\ UNCHANGED <<pc, ivars, xvars, fvars, uvars, runs, rvars>>

\* lines 402-403 and 470: return the counters
OverlapReturn(p) ==
  /\ procs[p].pc = "lookup"
  /\ procs[p].idx > Len(procs[p].grants)
  /\ procs' = [procs EXCEPT ![p].pc = "returned"]
  /\ UNCHANGED <<pc, ivars, xvars, fvars, uvars, store, now, runs, rvars>>

NextOverlap ==
  \E p \in Triggers :
    \/ OverlapClientError(p)
    \/ OverlapLookup(p)
    \/ OverlapWrite(p)
    \/ OverlapReturn(p)

SpecOverlap == InitOverlap /\ [][NextOverlap]_vars

\* both runs reconciled a record of the name and the provider of `grant`
BothReconciled(grant) ==
  \A p \in Triggers :
    /\ procs[p].pc = "returned"
    /\ procs[p].errors = 0
    /\ \E k \in 1..Len(procs[p].grants) :
         /\ procs[p].grants[k].v[kName] = grant.v[kName]
         /\ procs[p].grants[k].v[kProvider] = grant.v[kProvider]

\* C18: when two overlapping runs both reconcile a record of a name and
\* provider that is not stored, the table ends with exactly one grant of
\* that name and provider, in every interleaving: one run inserts it and the
\* other updates it.  Checked under SpecOverlap.
C18_OneRowWhenRunsOverlap ==
  \A grant \in OverlapGrants :
    BothReconciled(grant) => Cardinality(Existing(store, grant)) = 1

\* the batch recovered from the response of the call
RecoveredBatch ==
  LET parsed == JsonLoads(RecoverJsonText(xin.llm.text)) IN
  IF parsed.ok THEN RecoverGrants(parsed.val) ELSE [ok |-> FALSE, grants |-> <<>>]

\* the element is an object with a string name and a string provider
IsRecord(e) ==
  /\ e.t = "dict"
  /\ kName \in DOMAIN e.v
  /\ kProvider \in DOMAIN e.v
  /\ e.v[kName].t = "str"
  /\ e.v[kProvider].t = "str"

\* the record with the four entries the validator adds
WithSource(e, source) ==
  DictV([k \in DOMAIN e.v \cup {kSourceUrl, kSourceName, kSourceType, kExternalId} |->
           CASE k = kSourceUrl -> StrV(source.url)
             [] k = kSourceName -> StrV(source.name)
             [] k = kSourceType -> StrV(source.type)
             [] k = kExternalId ->
                  StrV(generate_grant_id(e.v[kName].v, e.v[kProvider].v))
             [] OTHER -> e.v[k]])

RECURSIVE Accepted(_, _, _)
\* the records of the batch from position i on, with their source
Accepted(batch, i, source) ==
  IF i > Len(batch) THEN <<>>
  ELSE (IF IsRecord(batch[i]) THEN <<WithSource(batch[i], source)>> ELSE <<>>)
       \o Accepted(batch, i + 1, source)

\* a call whose response gave a batch
BatchValidated ==
  /\ pc = "extracted"
  /\ xin.shape = "text"
  /\ RecoveredBatch.ok

\* C19: the validator returns exactly the elements of the batch that are
\* objects with a string name and a string provider, in their order, each
\* with source_url, source_name, source_type and external_id =
\* generate_grant_id(name, provider); every other element has a skip reason
\* under its position in the batch (counted from 0) and is not returned.
\* Checked under SpecExtract.
C19_OnlyOffendingDropped ==
  BatchValidated =>
    LET batch == RecoveredBatch.grants IN
    /\ xout.debug.grants_count_before_validation = Len(batch)
    /\ xout.grants = Accepted(batch, 1, xin.source)
    /\ DOMAIN xout.debug.skip_reasons =
         {i - 1 : i \in {j \in 1..Len(batch) : ~IsRecord(batch[j])}}
    /\ \A i \in DOMAIN xout.debug.skip_reasons :
         xout.debug.skip_reasons[i] # "none"

\* C19's case: of a batch of two elements the first is rejected and the
\* second is returned.
C19_Witness ==
  /\ BatchValidated
  /\ Len(RecoveredBatch.grants) = 2
  /\ ~IsRecord(RecoveredBatch.grants[1])
  /\ DOMAIN xout.debug.skip_reasons = {0}
  /\ Len(xout.grants) = 1
  /\ xout.grants[1].v[kName] = RecoveredBatch.grants[2].v[kName]

(***************************************************************************)
(* SpecLive: validate_grant_urls called on its own, on every input, or     *)
(* within a harvest run.                                                   *)
(***************************************************************************)
InitLive == InitFilter \/ InitRun

NextLive == NextRun

SpecLive == InitLive /\ [][NextLive]_vars

RECURSIVE Sel(_, _, _)
\* the elements of seq at the positions of S, from position i on
Sel(seq, S, i) ==
  IF i > Len(seq) THEN <<>>
  ELSE (IF i \in S THEN <<seq[i]>> ELSE <<>>) \o Sel(seq, S, i + 1)

\* validate_grant_urls returned
Filtered == pc \in {"validated", "upsert", "upserted", "done"}

\* C20: validate_grant_urls partitions its input, for every input and every
\* outcome of the probes: the live list is the input without the excluded
\* records, in input order, the excluded list has one entry for each
\* excluded record, and a record with neither application_url nor
\* source_url is live and was not probed; in the summary of a run
\* valid_grants + len(filtered_grants) = total_grants_found.  Checked under
\* SpecLive.
C20_FilterPartitions ==
  /\ Filtered =>
       \E Ex \in SUBSET (1..Len(v_in)) :
         LET out == Sel(v_in, Ex, 1) IN
         /\ valid_grants = Sel(v_in, (1..Len(v_in)) \ Ex, 1)
         /\ Len(filtered_grants) = Len(out)
         /\ \A k \in 1..Len(out) :
              /\ filtered_grants[k].name = out[k].v[kName]
              /\ filtered_grants[k].provider = out[k].v[kProvider]
         /\ Len(valid_grants) + Len(filtered_grants) = Len(v_in)
         /\ \A i \in 1..Len(v_in) :
              ~Truthy(EffectiveUrl(v_in[i])) => i \notin Ex /\ ProbesOf(i) = {}
  /\ pc = "done" =>
       summary.valid_grants + Len(summary.filtered_grants)
         = summary.total_grants_found

\* C20's case: of two records the one without a URL is live and was not
\* probed, the other one is excluded.
C20_Witness ==
  /\ pc = "validated"
  /\ Len(v_in) = 2
  /\ Len(valid_grants) = 1
  /\ Len(filtered_grants) = 1
  /\ \E i \in 1..2 : ~Truthy(EffectiveUrl(v_in[i])) /\ valid_grants[1] = v_in[i]
  /\ Len(probes) = 1

====
